---- MODULE Spec2Model ----
(***************************************************************************)
(* Verification model of the leak-playground thread pool:                  *)
(*   thread-pool/src/sync_queue.rs       SyncQueue (Mutex + Condvar deque) *)
(*   thread-pool/src/sync_queue/spmc.rs  Sender / Receiver / iterator      *)
(*   thread-pool/src/lib.rs              ThreadPool, Executor              *)
(*   common-primitives/src/executor.rs   Executor (same code)              *)
(*   std/src/thread.rs                   spawn_scoped, JoinGuard           *)
(*                                                                         *)
(* Every critical section of the queue runs under `items.lock()`, so each  *)
(* one is a single atomic action; Condvar::wait releases the mutex and     *)
(* blocks in one step, and a woken thread re-enters its critical section   *)
(* in a later step.                                                        *)
(*                                                                         *)
(*   src/lib.rs, src/thread.rs           JoinGuard, JoinScope, the tests   *)
(*   tokio/src/task.rs                   ScopedJoinHandle                  *)
(*   common-primitives/src/scope_lock.rs ScopeLock                         *)
(*                                                                         *)
(* Two systems are built from the same queue actions:                      *)
(*   Spec      clients calling push / pop / close / is_closed on one       *)
(*             SyncQueue from any number of threads;                       *)
(*   SpecExec  one Executor: unresumed, sender().send, start, drop.        *)
(* Three small systems stand beside them:                                  *)
(*   SpecNested  two threads whose guards are owned without a cycle;       *)
(*   SpecTask    one tokio task and its ScopedJoinHandle;                  *)
(*   SpecLock    one ScopeLock and the pairs made from it.                 *)
(***************************************************************************)
EXTENDS Integers, Sequences, FiniteSets, TLC

\* ------------------------------------------------------------------ bounds
MaxPush == 3            \* push / send calls made by clients in one behaviour
MaxJobs == 2            \* jobs sent to one executor in one behaviour
NumConsumers == 2       \* client threads calling pop in Spec
MaxParallelism == 2     \* largest value the parallelism probe answers
MaxClose == 2           \* close calls made by clients in Spec
MaxSenders == 2         \* Sender handles built over one queue in SpecSenders
MaxStart == 2           \* counted calls of Executor::start in SpecLife
MaxPolls == 2           \* turns in which one task yields before it ends
MaxPairs == 2           \* lock_fn / lock_fn_mut calls on one ScopeLock

\* --------------------------------------------------------------- constants
DEFAULT_NUM_THREADS == 4

Max(a, b) == IF a > b THEN a ELSE b

\* identities of the threads that pop: clients in Spec, pool workers in SpecExec
Threads == 1..Max(Max(NumConsumers, MaxParallelism), DEFAULT_NUM_THREADS)
Consumers == 1..NumConsumers

VARIABLES
    items,      \* SyncQueue.items: [some |-> FALSE] is None (closed)
    waiters,    \* threads blocked inside cond_var.wait
    pc,         \* position of every popping thread
    ret,        \* last result of pop per thread (Result<T, Closed>)
    pushRet,    \* result of the last push (Result<(), SyncQueuePushError<T>>)
    closeRet,   \* results of the close calls so far, in lock order
    observed,   \* result of the last is_closed call
    calls,      \* number of push calls made (next item identity)
    pushed,     \* history: items accepted by push, in lock order
    popped,     \* history: <<thread, item>> of successful pops, in lock order
    poppedAtClose, \* history: Len(popped) when the first close took the lock
    executed,   \* history: jobs run by pool workers
    threads,    \* Executor.threads: Option<ThreadPool>
    sender,     \* Executor.sender: "live", "closed" (Sender::drop ran), "gone"
    queueAlive, \* the SyncQueue value has not been destroyed
    teardown,   \* 0 = executor alive, k = dropping its k-th field, done beyond
    joined,     \* number of JoinGuards of the pool already dropped
    senders,    \* Sender handles alive over the queue (clients)
    sendersMade, \* Sender handles built so far (clients)
    polled,     \* result of the last ThreadPool::is_finished call
    poisoned,   \* the mutex is poisoned: a holder of the lock panicked
    expectFailed, \* history: some call panicked in expect("job queue is poisoned")
    atStart,    \* history: what the start that built the pool saw
    starts,     \* history: number of counted calls of Executor::start
    unwinding,  \* the thread dropping the pool is panicking
    yielded,    \* history: <<thread, item>> handed out by next(), in lock order
    lastNext,   \* result of the last next() call per thread
    scope,      \* one JoinScope: its slot, the threads it started, its panics
    nsMain,     \* nested guards: position of the spawning thread
    nsChild,    \* nested guards: position of each child thread
    nsGuard,    \* nested guards: each JoinGuard, where it is and how it ended
    nsVariant,  \* nested guards: which JoinGuard the program uses
    task,       \* one tokio task and its ScopedJoinHandle
    slock       \* one ScopeLock, its ExtendedFn and its ScopeGuard

vars == <<items, waiters, pc, ret, pushRet, closeRet, observed, calls, pushed,
          popped, poppedAtClose, executed, threads, sender, queueAlive,
          teardown, joined, senders, sendersMade, polled, poisoned,
          expectFailed, atStart, starts, unwinding, yielded, lastNext, scope,
          nsMain, nsChild, nsGuard, nsVariant, task, slock>>

execVars == <<executed, threads, sender, queueAlive, teardown, joined>>
auxVars == <<senders, sendersMade, polled>>
poisonVars == <<poisoned, expectFailed>>
lifeVars == <<atStart, starts, unwinding>>
viewVars == <<yielded, lastNext, scope>>
nestVars == <<nsMain, nsChild, nsGuard, nsVariant>>
sideVars == <<nestVars, task, slock>>
queueVars == <<items, waiters, pc, ret, pushRet, closeRet, observed, calls,
               pushed, popped, poppedAtClose>>
poolVars == <<queueVars, execVars, auxVars, poisonVars, lifeVars, viewVars>>

\* ------------------------------------------------------------ result values
None == [some |-> FALSE, queue |-> <<>>]
Some(q) == [some |-> TRUE, queue |-> q]
Ok(v) == [ok |-> TRUE, item |-> v]
Closed == [ok |-> FALSE, item |-> 0]          \* Err(ClosedSyncQueueError)
CloseError == [ok |-> FALSE, item |-> <<>>]   \* the same error, from close
PushError(item) == [ok |-> FALSE, item |-> item]
NoResult == [ok |-> FALSE, item |-> -1]       \* no call has returned yet
Panicked == [ok |-> FALSE, item |-> -2]       \* the call unwound with a panic
ClosePanicked == [ok |-> FALSE, item |-> <<-2>>]
NotStarted == [probe |-> [ok |-> FALSE, n |-> 0], sent |-> -1]
NoNext == [some |-> FALSE, item |-> -1]       \* next() has not returned yet

\* a queue that is born closed
new_closed == None
\* SyncQueue::new
new == Some(<<>>)

\* the two guards of the nested-ownership programs: the guard of thread 1 and
\* the guard of thread 2
Guards == 1..2

\* a JoinGuard that has not been made yet
NoGuard == [holder |-> "none", joins |-> 0, res |-> "none", via |-> "none",
            raised |-> FALSE, unw |-> FALSE]

\* no task has been spawned
NoTask == [kind |-> "none", state |-> "none", polls |-> 0, abort |-> FALSE,
           handle |-> "none", taken |-> FALSE, read |-> FALSE,
           cancelRet |-> "none", drop |-> "none", ranAfter |-> FALSE]

\* the pairs (ExtendedFn, ScopeGuard) one ScopeLock hands out, in order
Pairs == 1..MaxPairs

\* ScopeLock::new: the mutex is free and clean and nothing has been handed out
ScopeLock_new ==
    [holder |-> 0, poisoned |-> FALSE, made |-> 0,
     fn |-> [p \in Pairs |-> "none"], guard |-> [p \in Pairs |-> "none"],
     same |-> [p \in Pairs |-> FALSE], by |-> [p \in Pairs |-> "none"],
     fAlive |-> [p \in Pairs |-> FALSE], called |-> [p \in Pairs |-> FALSE],
     lateCall |-> FALSE]

\* JoinScope::new(f): the slot holds the closure, no thread has been started
\* and no spawn has answered
JoinScope_new == [f |-> TRUE, spawned |-> 0, by |-> "none", result |-> "none"]

\* ------------------------------------------------------- VecDeque operations
\* a deque that stores every pushed item twice
push_back_twice(q, item) == Append(Append(q, item), item)
\* VecDeque::push_back
push_back(q, item) == Append(q, item)

\* a deque served from the wrong end
pop_back(q) == [item |-> q[Len(q)], rest |-> SubSeq(q, 1, Len(q) - 1)]
\* a front that is read but not removed
peek_front(q) == [item |-> Head(q), rest |-> q]
\* VecDeque::pop_front on a non-empty deque: the item and what is left
pop_front(q) == [item |-> Head(q), rest |-> Tail(q)]

\* ---------------------------------------------------------------- the mutex
\* a wait that sleeps with the mutex still locked
HeldInWaitKept(ws) == ws
\* Condvar::wait(lock) unlocks the mutex as it blocks: the threads that hold
\* the mutex while they are blocked in wait
HeldInWait(ws) == {}

\* Mutex::lock returns once no other thread holds the mutex; every critical
\* section of the queue is one step, so between steps only a blocked thread
\* could hold it
lock == HeldInWait(waiters) = {}

\* ------------------------------------------------------------------- pushes
\* a push that stores Some(..) whatever it found under the lock
PushReopens(its, item) == Some(push_back(its.queue, item))
\* what push leaves in the mutex: the match on &mut *lock
PushStore(its, item) ==
    IF its.some THEN Some(push_back(its.queue, item)) ELSE its

\* SyncQueuePushError::into_item
into_item(err) == err.item

\* a push that reports success and drops the item it could not store
PushResultSwallows(its, item) == Ok(0)
\* what push returns: Ok(()) or the error carrying the item
PushResult(its, item) == IF its.some THEN Ok(0) ELSE PushError(item)

\* SyncQueue::push: no blocking, and no notification of the condition
\* variable; lock().expect(..) panics on a poisoned mutex
push(item) ==
    /\ lock
    /\ IF poisoned
       THEN /\ pushRet' = Panicked
            /\ expectFailed' = TRUE
            /\ UNCHANGED <<items, pushed>>
       ELSE /\ items' = PushStore(items, item)
            /\ pushRet' = PushResult(items, item)
            /\ pushed' = IF items.some THEN Append(pushed, item) ELSE pushed
            /\ UNCHANGED expectFailed
    /\ calls' = calls + 1
    /\ UNCHANGED <<waiters, poisoned>>

\* ---------------------------------------------------------------- the wakes
\* Condvar::notify_one: one blocked thread, if any, leaves the wait
notify_one(w) ==
    \/ /\ waiters = {}
       /\ w = 0
    \/ /\ w \in waiters

\* --------------------------------------------------------------------- pops
\* a view that hands out something whatever recv answered
IterNextAlways(r) == [some |-> TRUE, item |-> r.item]
\* ReceiverIntoIter::next = recv().ok()
IterNext(r) == IF r.ok THEN [some |-> TRUE, item |-> r.item]
                        ELSE [some |-> FALSE, item |-> 0]

\* a pop that takes None for an empty queue
PopClosedIgnored(its) == FALSE
\* a pop that gives up as soon as it finds nothing to take
PopClosedOrEmpty(its) == ~its.some \/ its.queue = <<>>
\* lock.as_mut().ok_or(ClosedSyncQueueError(()))? returns the error on None
PopClosed(its) == ~its.some

\* One pass of the loop of SyncQueue::pop under the lock, for a thread that
\* has just called pop or has just been woken.  onItem / onClosed are where
\* the caller continues when pop returns; res_lock.expect(..) panics on a
\* poisoned mutex and the thread unwinds.
pop(t, onItem, onClosed) ==
    /\ pc[t] \in {"ready", "woken"}
    /\ lock
    /\ UNCHANGED poisoned
    /\ expectFailed' = (expectFailed \/ poisoned)
    /\ IF poisoned
       THEN /\ ret' = [ret EXCEPT ![t] = Panicked]
            /\ pc' = [pc EXCEPT ![t] = "panicked"]
            /\ UNCHANGED <<items, waiters, popped>>
       ELSE IF PopClosed(items)
       THEN /\ ret' = [ret EXCEPT ![t] = Closed]
            /\ pc' = [pc EXCEPT ![t] = onClosed]
            /\ UNCHANGED <<items, waiters, popped>>
       ELSE IF items.queue # <<>>
       THEN /\ items' = Some(pop_front(items.queue).rest)
            /\ ret' = [ret EXCEPT ![t] = Ok(pop_front(items.queue).item)]
            /\ popped' = Append(popped, <<t, pop_front(items.queue).item>>)
            /\ IF pop_front(items.queue).rest # <<>>
               THEN \E w \in waiters \cup {0} :
                      /\ notify_one(w)
                      /\ waiters' = waiters \ {w}
                      /\ pc' = [u \in Threads |->
                                  IF u = t THEN onItem
                                  ELSE IF u = w THEN "woken" ELSE pc[u]]
               ELSE /\ pc' = [pc EXCEPT ![t] = onItem]
                    /\ UNCHANGED waiters
       ELSE /\ waiters' = waiters \cup {t}
            /\ pc' = [pc EXCEPT ![t] = "waiting"]
            /\ UNCHANGED <<items, ret, popped>>

\* Condvar::wait may return without a notification
SpuriousWakeup(t) ==
    /\ t \in waiters
    /\ waiters' = waiters \ {t}
    /\ pc' = [pc EXCEPT ![t] = "woken"]

\* -------------------------------------------------------------------- close
\* a close that answers Ok whatever it took
CloseRestAlwaysOk(its) == Ok(its.queue)
\* a close that answers with a fresh deque instead of the one it took
CloseRestEmpty(its) == IF its.some THEN Ok(<<>>) ELSE CloseError
\* what close returns: rest.ok_or(ClosedSyncQueueError)
CloseRest(its) == IF its.some THEN Ok(its.queue) ELSE CloseError

\* a close that reopens a queue it finds closed
CloseReopens(its) == IF its.some THEN None ELSE Some(<<>>)
\* a close that reads the items and leaves them in place
CloseKeeps(its) == its
\* Option::take: what close leaves in the mutex
CloseTake(its) == None

\* a close that wakes one waiter only
notify_first(ws) == IF ws = {} THEN {} ELSE {CHOOSE w \in ws : TRUE}
\* Condvar::notify_all: every blocked thread leaves the wait
notify_all(ws) == ws

\* a close that also stops the threads that are running a job
ReleasedAndAborted(ws, p) ==
    [u \in Threads |-> IF u \in ws THEN "woken"
                       ELSE IF p[u] = "running" THEN "finished" ELSE p[u]]
\* where the threads are after close: the notified ones leave their wait,
\* every other thread is where it was
Released(ws, p) == [u \in Threads |-> IF u \in ws THEN "woken" ELSE p[u]]

\* SyncQueue::close: take, notify_all, rest.ok_or(Closed); lock().expect(..)
\* panics on a poisoned mutex before anything is taken or notified
close ==
    /\ lock
    /\ UNCHANGED poisoned
    /\ expectFailed' = (expectFailed \/ poisoned)
    /\ IF poisoned
       THEN /\ closeRet' = Append(closeRet, ClosePanicked)
            /\ UNCHANGED <<items, poppedAtClose, waiters, pc>>
       ELSE /\ items' = CloseTake(items)
            /\ closeRet' = Append(closeRet, CloseRest(items))
            /\ poppedAtClose' = IF items.some THEN Len(popped) ELSE poppedAtClose
            /\ waiters' = waiters \ notify_all(waiters)
            /\ pc' = Released(notify_all(waiters), pc)

\* SyncQueue::is_closed
is_closed(its) == ~its.some

\* ======================================================= system 1: clients
PopItems == [i \in 1..Len(popped) |-> popped[i][2]]

InitQueue ==
    /\ items = new
    /\ waiters = {}
    /\ ret = [t \in Threads |-> NoResult]
    /\ pushRet = NoResult
    /\ closeRet = <<>>
    /\ observed = FALSE
    /\ calls = 0
    /\ pushed = <<>>
    /\ popped = <<>>
    /\ poppedAtClose = -1
    /\ senders = 0
    /\ sendersMade = 0
    /\ polled = [turn |-> 0, val |-> FALSE]
    /\ poisoned = FALSE
    /\ expectFailed = FALSE
    /\ atStart = NotStarted
    /\ starts = 0
    /\ unwinding = FALSE
    /\ yielded = <<>>
    /\ lastNext = [t \in Threads |-> NoNext]
    /\ scope = JoinScope_new
    /\ nsMain = "start"
    /\ nsChild = [g \in Guards |-> "unspawned"]
    /\ nsGuard = [g \in Guards |-> NoGuard]
    /\ nsVariant = "none"
    /\ task = NoTask
    /\ slock = ScopeLock_new

Init ==
    /\ InitQueue
    /\ pc = [t \in Threads |-> IF t \in Consumers THEN "ready" ELSE "absent"]
    /\ executed = <<>>
    /\ threads = [some |-> FALSE, n |-> 0]
    /\ sender = "live"
    /\ queueAlive = TRUE
    /\ teardown = 0
    /\ joined = 0

\* a client pushes a fresh item
Push ==
    /\ calls < MaxPush
    /\ push(calls + 1)
    /\ UNCHANGED <<pc, ret, closeRet, observed, popped, poppedAtClose, execVars>>
    /\ UNCHANGED <<auxVars, lifeVars, viewVars, sideVars>>

\* a client thread calls pop (or recv, or next on the iteration view), or
\* continues its pop after a wake
Pop(t) ==
    /\ pop(t, "ready", "ready")
    /\ UNCHANGED <<pushRet, closeRet, observed, calls, pushed, poppedAtClose,
                   execVars>>
    /\ UNCHANGED <<auxVars, lifeVars, viewVars, sideVars>>

Wake(t) ==
    /\ SpuriousWakeup(t)
    /\ UNCHANGED <<items, ret, pushRet, closeRet, observed, calls, pushed,
                   popped, poppedAtClose, execVars>>
    /\ UNCHANGED <<auxVars, lifeVars, viewVars, sideVars, poisonVars>>

\* a client calls close (directly, or by dropping a Sender)
Close ==
    /\ Len(closeRet) < MaxClose
    /\ close
    /\ UNCHANGED <<ret, pushRet, observed, calls, pushed, popped, execVars>>
    /\ UNCHANGED <<auxVars, lifeVars, viewVars, sideVars>>

\* a client calls is_closed; lock().expect(..) panics on a poisoned mutex
IsClosed ==
    /\ lock
    /\ observed' = IF poisoned THEN observed ELSE is_closed(items)
    /\ expectFailed' = (expectFailed \/ poisoned)
    /\ UNCHANGED <<items, waiters, pc, ret, pushRet, closeRet, calls, pushed,
                   popped, poppedAtClose, execVars, auxVars, lifeVars, viewVars, sideVars, poisoned>>

Next ==
    \/ Push
    \/ \E t \in Consumers : Pop(t)
    \/ \E t \in Consumers : Wake(t)
    \/ Close
    \/ IsClosed

Spec == Init /\ [][Next]_vars

\* ------------------------------------- clients reading the iteration view
\* bool::then_some
then_some(b, v) == [some |-> b, item |-> IF b THEN v ELSE -1]

\* a hint that promises the end of the iteration on any queue
size_hint_ended(its) == <<0, then_some(TRUE, 0)>>
\* ReceiverIntoIter::size_hint: (0, is_closed().then_some(0))
size_hint(its) == <<0, then_some(is_closed(its), 0)>>

\* A client thread calls next() on an iterator over the queue (pop_iter,
\* into_iter, Receiver::iter: each is a Receiver wrapped around the same
\* queue), or continues that call after a wake.  When the pop inside returns,
\* next returns its .ok().
next(t) ==
    /\ pop(t, "ready", "ready")
    /\ lastNext' = IF pc'[t] = "ready"
                   THEN [lastNext EXCEPT ![t] = IterNext(ret'[t])]
                   ELSE lastNext
    /\ yielded' = IF pc'[t] = "ready" /\ IterNext(ret'[t]).some
                  THEN Append(yielded, <<t, IterNext(ret'[t]).item>>)
                  ELSE yielded
    /\ UNCHANGED <<pushRet, closeRet, observed, calls, pushed, poppedAtClose,
                   execVars, auxVars, lifeVars, scope, sideVars>>

NextIter ==
    \/ Push
    \/ \E t \in Consumers : next(t)
    \/ \E t \in Consumers : Wake(t)
    \/ Close
    \/ IsClosed

SpecIter == Init /\ [][NextIter]_vars

\* ------------------------------------------------ a client with a JoinScope
\* the three ways to spawn from a JoinScope; spawn and spawn_static wrap what
\* spawn_outside returns
SpawnKinds == {"spawn", "spawn_outside", "spawn_static"}

\* a slot that is read and left full
SlotKept(f) == f
\* Option::take: what self.f.take() leaves in the slot
SlotTaken(f) == FALSE

\* JoinScope::spawn_outside, called directly or through spawn / spawn_static:
\* JoinGuard::spawn(self.f.take().expect("Second spawn"))
ScopeSpawn(kind) ==
    /\ scope' = IF scope.f
                THEN [f |-> SlotTaken(scope.f), spawned |-> scope.spawned + 1,
                      by |-> kind, result |-> "guard"]
                ELSE [f |-> SlotTaken(scope.f), spawned |-> scope.spawned,
                      by |-> kind, result |-> "Second spawn"]
    /\ UNCHANGED <<items, waiters, pc, ret, pushRet, closeRet, observed, calls,
                   pushed, popped, poppedAtClose, execVars, auxVars, lifeVars,
                   poisonVars, yielded, lastNext, sideVars>>

NextScope ==
    \/ Next
    \/ \E kind \in SpawnKinds : ScopeSpawn(kind)

SpecScope == Init /\ [][NextScope]_vars

\* ----------------------------------------- clients holding Sender handles
\* Sender::from_queue(&queue): one more handle over the same queue
NewSender ==
    /\ sendersMade < MaxSenders
    /\ senders' = senders + 1
    /\ sendersMade' = sendersMade + 1
    /\ UNCHANGED <<items, waiters, pc, ret, pushRet, closeRet, observed, calls,
                   pushed, popped, poppedAtClose, execVars, polled, poisonVars,
                   lifeVars, viewVars, sideVars>>

\* Sender::send forwards to push
SenderSend ==
    /\ senders > 0
    /\ calls < MaxPush
    /\ push(calls + 1)
    /\ UNCHANGED <<pc, ret, closeRet, observed, popped, poppedAtClose, execVars,
                   auxVars, lifeVars, viewVars, sideVars>>

\* a Sender that never closes its queue
DropClosesNever(live) == FALSE
\* impl Drop for Sender calls close whatever other handles exist
DropCloses(live) == TRUE

\* a client drops one of the live Sender handles
SenderDrop ==
    /\ senders > 0
    /\ senders' = senders - 1
    /\ IF DropCloses(senders)
       THEN close
       ELSE UNCHANGED <<items, closeRet, poppedAtClose, waiters, pc, poisonVars>>
    /\ UNCHANGED <<ret, pushRet, observed, calls, pushed, popped, execVars,
                   sendersMade, polled, lifeVars, viewVars, sideVars>>

NextSenders ==
    \/ Next
    \/ NewSender
    \/ SenderSend
    \/ SenderDrop

SpecSenders == Init /\ [][NextSenders]_vars

\* --------------------------------------------- a panic under the queue lock
\* A push whose push_back panics (VecDeque growth: "capacity overflow") while
\* the MutexGuard is held: the guard is dropped during the unwinding, which
\* poisons the mutex; the item is not stored.
PushPanics ==
    /\ calls < MaxPush
    /\ ~poisoned
    /\ items.some
    /\ poisoned' = TRUE
    /\ pushRet' = Panicked
    /\ calls' = calls + 1
    /\ UNCHANGED <<items, waiters, pc, ret, closeRet, observed, pushed, popped,
                   poppedAtClose, execVars, auxVars, lifeVars, viewVars, sideVars, expectFailed>>

NextPoison ==
    \/ Next
    \/ PushPanics

SpecPoison == Init /\ [][NextPoison]_vars

\* ===================================================== system 2: Executor
\* std::thread::available_parallelism: Ok(n) with n >= 1, or Err
ProbeOutcomes ==
    {[ok |-> TRUE, n |-> k] : k \in 1..MaxParallelism} \cup {[ok |-> FALSE, n |-> 0]}

\* a count taken from the probe alone, with nothing to fall back on
num_threads_unchecked(probe) == probe.n
\* ThreadPool::from_jobs_iter: the number of workers spawned
num_threads(probe) == IF probe.ok THEN probe.n ELSE DEFAULT_NUM_THREADS

\* an Executor declaring its pool before its sender
FieldOrderPoolFirst == <<"threads", "sender">>
\* struct Executor: fields are destroyed in declaration order
FieldOrder == <<"sender", "threads">>

Workers == IF threads.some THEN 1..threads.n ELSE {}

\* Executor::unresumed
unresumed ==
    /\ InitQueue
    /\ pc = [t \in Threads |-> "absent"]
    /\ executed = <<>>
    /\ threads = [some |-> FALSE, n |-> 0]
    /\ sender = "live"
    /\ queueAlive = TRUE
    /\ teardown = 0
    /\ joined = 0

\* a start that builds a pool whatever it finds
AlreadyRunningNever(th) == FALSE
\* if self.threads.is_some() { return; }
AlreadyRunning(th) == th.some

\* The body of Executor::start: nothing when the pool exists; otherwise every
\* worker is spawned at once and is about to call next() on its clone of the
\* receiver
StartPool(probe) ==
    /\ teardown = 0
    /\ IF AlreadyRunning(threads)
       THEN UNCHANGED <<threads, pc>>
       ELSE /\ threads' = [some |-> TRUE, n |-> num_threads(probe)]
            /\ pc' = [t \in Threads |->
                        IF t <= num_threads(probe) THEN "ready" ELSE pc[t]]
    /\ UNCHANGED <<items, waiters, ret, pushRet, closeRet, observed, calls,
                   pushed, popped, poppedAtClose, executed, sender, queueAlive,
                   teardown, joined>>
    /\ UNCHANGED <<auxVars, unwinding, viewVars, sideVars, poisonVars>>

\* Executor::start
start ==
    /\ \E probe \in ProbeOutcomes : StartPool(probe)
    /\ UNCHANGED <<atStart, starts>>

\* executor.sender().send(job), before or after start
Send ==
    /\ teardown = 0
    /\ calls < MaxJobs
    /\ push(calls + 1)
    /\ UNCHANGED <<pc, ret, closeRet, observed, popped, poppedAtClose, execVars>>
    /\ UNCHANGED <<auxVars, lifeVars, viewVars, sideVars>>

\* a worker's queue.into_iter().for_each(..) calls next(): Some(job) is run,
\* None ends the thread
WorkerNext(w) ==
    /\ w \in Workers
    /\ queueAlive
    /\ pop(w, "running", "finished")
    /\ UNCHANGED <<pushRet, closeRet, observed, calls, pushed, poppedAtClose,
                   execVars>>
    /\ UNCHANGED <<auxVars, lifeVars, viewVars, sideVars>>

WorkerWake(w) ==
    /\ w \in Workers
    /\ SpuriousWakeup(w)
    /\ UNCHANGED <<items, ret, pushRet, closeRet, observed, calls, pushed,
                   popped, poppedAtClose, execVars>>
    /\ UNCHANGED <<auxVars, lifeVars, viewVars, sideVars, poisonVars>>

\* a worker that lets the job go without calling it
JobForgotten(done, job) == done
\* a job put on a pile, to be run after the ones taken later
JobPrepended(done, job) == <<job>> \o done
\* what a worker does with the job next() gave it
JobEffect(done, job) == Append(done, job)

\* for_each(|job| job()): the job runs to completion on its worker
RunJob(w) ==
    /\ w \in Workers
    /\ pc[w] = "running"
    /\ executed' = JobEffect(executed, IterNext(ret[w]).item)
    /\ pc' = [pc EXCEPT ![w] = "ready"]
    /\ UNCHANGED <<items, waiters, ret, pushRet, closeRet, observed, calls,
                   pushed, popped, poppedAtClose, threads, sender, queueAlive,
                   teardown, joined>>
    /\ UNCHANGED <<auxVars, lifeVars, viewVars, sideVars, poisonVars>>

\* A worker locks the mutex of a SyncQueue that has already been destroyed
\* (UnsafeInternalRef::as_ref on a dangling pointer).  The behaviour is
\* undefined: the build either reads the bytes the destroyed queue left
\* behind, or faults and the thread never returns.
DanglingOutcomes == {"stale", "fault"}

WorkerDangling(w) ==
    /\ w \in Workers
    /\ ~queueAlive
    /\ pc[w] \in {"ready", "woken"}
    /\ \E o \in DanglingOutcomes :
         IF o = "stale"
         THEN pop(w, "running", "finished")
         ELSE /\ pc' = [pc EXCEPT ![w] = "fault"]
              /\ UNCHANGED <<items, waiters, ret, popped, poisonVars>>
    /\ UNCHANGED <<pushRet, closeRet, observed, calls, pushed, poppedAtClose,
                   execVars, auxVars, lifeVars, viewVars, sideVars>>

\* the owner lets the executor go out of scope
DropExecutor ==
    /\ teardown = 0
    /\ teardown' = 1
    /\ UNCHANGED <<items, waiters, pc, ret, pushRet, closeRet, observed, calls,
                   pushed, popped, poppedAtClose, executed, threads, sender,
                   queueAlive, joined>>
    /\ UNCHANGED <<auxVars, lifeVars, viewVars, sideVars, poisonVars>>

Dropping(field) ==
    /\ teardown \in 1..Len(FieldOrder)
    /\ FieldOrder[teardown] = field

\* impl Drop for Sender: let _ = self.queue.as_ref().close()
DropSender ==
    /\ Dropping("sender")
    /\ sender = "live"
    /\ close
    /\ sender' = "closed"
    /\ UNCHANGED <<ret, pushRet, observed, calls, pushed, popped, executed,
                   threads, queueAlive, teardown, joined>>
    /\ UNCHANGED <<auxVars, lifeVars, viewVars, sideVars>>

\* then the fields of the Sender are destroyed: the SyncQueue it owns by value
DropQueue ==
    /\ Dropping("sender")
    /\ sender = "closed"
    /\ sender' = "gone"
    /\ queueAlive' = FALSE
    /\ teardown' = teardown + 1
    /\ UNCHANGED <<items, waiters, pc, ret, pushRet, closeRet, observed, calls,
                   pushed, popped, poppedAtClose, executed, threads, joined>>
    /\ UNCHANGED <<auxVars, lifeVars, viewVars, sideVars, poisonVars>>

\* JoinGuard::is_finished: the child thread has run to its end, by returning
\* or by unwinding
ThreadFinished(w) == pc[w] \in {"finished", "panicked"}

\* a guard that lets go of its thread without waiting for it
JoinDetached(w) == TRUE
\* JoinHandle::join returns once the child thread has ended
JoinReturns(w) == ThreadFinished(w)

\* join_handle.join() is Err when the child thread panicked
JoinErr(w) == pc[w] = "panicked"

\* a Vec whose drop stops at the first element whose drop panics
GuardsLeftUntilPanic(j, n, unw) == j < n /\ ~unw
\* drop glue of Vec<JoinGuard>: every element is dropped, also while the
\* panic of an earlier element's drop unwinds
GuardsLeft(j, n, unw) == j < n

\* impl Drop for JoinGuard, for the guards of the Vec in order
DropJoinGuard ==
    /\ Dropping("threads")
    /\ threads.some
    /\ GuardsLeft(joined, threads.n, unwinding)
    /\ JoinReturns(joined + 1)
    /\ joined' = joined + 1
    /\ unwinding' = (unwinding \/ JoinErr(joined + 1))
    /\ UNCHANGED <<items, waiters, pc, ret, pushRet, closeRet, observed, calls,
                   pushed, popped, poppedAtClose, executed, threads, sender,
                   queueAlive, teardown>>
    /\ UNCHANGED <<auxVars, atStart, starts, viewVars, sideVars, poisonVars>>

\* the Option<ThreadPool> is None, or every guard of the Vec has been dropped
DropThreadsDone ==
    /\ Dropping("threads")
    /\ threads.some => ~GuardsLeft(joined, threads.n, unwinding)
    /\ teardown' = teardown + 1
    /\ UNCHANGED <<items, waiters, pc, ret, pushRet, closeRet, observed, calls,
                   pushed, popped, poppedAtClose, executed, threads, sender,
                   queueAlive, joined>>
    /\ UNCHANGED <<auxVars, lifeVars, viewVars, sideVars, poisonVars>>

Dropped == teardown = Len(FieldOrder) + 1

WorkerStep(w) == WorkerNext(w) \/ RunJob(w) \/ WorkerDangling(w)

TeardownStep == DropSender \/ DropQueue \/ DropJoinGuard \/ DropThreadsDone

\* what goes on around an executor besides the calls of start
RunExec ==
    \/ Send
    \/ \E w \in Threads : WorkerNext(w)
    \/ \E w \in Threads : WorkerWake(w)
    \/ \E w \in Threads : RunJob(w)
    \/ \E w \in Threads : WorkerDangling(w)
    \/ DropExecutor
    \/ DropSender
    \/ DropQueue
    \/ DropJoinGuard
    \/ DropThreadsDone

NextExec ==
    \/ start
    \/ RunExec

SpecExec == unresumed /\ [][NextExec]_vars

\* ------------------------------------- the pool polled, the queue closed
\* a pool that reports itself finished as soon as one worker is
is_finished_any == \E w \in Workers : ThreadFinished(w)
\* ThreadPool::is_finished: self.threads.iter().all(|t| t.is_finished())
is_finished == \A w \in Workers : ThreadFinished(w)

\* the owner polls the running pool; polled.turn tells one call from the next
PoolIsFinished ==
    /\ teardown = 0
    /\ threads.some
    /\ polled' = [turn |-> 1 - polled.turn, val |-> is_finished]
    /\ UNCHANGED <<items, waiters, pc, ret, pushRet, closeRet, observed, calls,
                   pushed, popped, poppedAtClose, execVars, senders,
                   sendersMade, poisonVars, lifeVars, viewVars, sideVars>>

\* executor.sender().queue().close(): the owner closes the queue by hand
CloseQueue ==
    /\ teardown = 0
    /\ Len(closeRet) < MaxClose
    /\ close
    /\ UNCHANGED <<ret, pushRet, observed, calls, pushed, popped, execVars,
                   auxVars, lifeVars, viewVars, sideVars>>

NextPool ==
    \/ NextExec
    \/ PoolIsFinished
    \/ CloseQueue

SpecPool == unresumed /\ [][NextPool]_vars

\* ------------------------------------------------- jobs that panic
\* a panic that aborts the process: every thread ends with it
UnwoundAll(p, w) == [u \in Threads |-> IF p[u] = "absent" THEN p[u] ELSE "panicked"]
\* a panic unwinds the thread it was raised in and no other
Unwound(p, w) == [p EXCEPT ![w] = "panicked"]
\* for_each(|job| job()) when the job panics: the worker thread unwinds and
\* ends; the job is not counted as run
JobPanics(w) ==
    /\ w \in Workers
    /\ pc[w] = "running"
    /\ pc' = Unwound(pc, w)
    /\ UNCHANGED <<items, waiters, ret, pushRet, closeRet, observed, calls,
                   pushed, popped, poppedAtClose, execVars>>
    /\ UNCHANGED <<auxVars, lifeVars, viewVars, sideVars, poisonVars>>

NextPanic ==
    \/ NextExec
    \/ \E w \in Threads : JobPanics(w)

SpecPanic == unresumed /\ [][NextPanic]_vars

\* --------------------------------------------- start called again and again
\* a call of Executor::start with its history kept: the number of the call
\* and, for the call that builds the pool, the probe's answer and the number
\* of jobs sent before it
StartCall ==
    /\ starts < MaxStart
    /\ starts' = starts + 1
    /\ \E probe \in ProbeOutcomes :
         /\ StartPool(probe)
         /\ atStart' = IF AlreadyRunning(threads) THEN atStart
                        ELSE [probe |-> probe, sent |-> Len(pushed)]

NextLife ==
    \/ StartCall
    \/ RunExec

SpecLife == unresumed /\ [][NextLife]_vars

\* an executor whose owner keeps it: started, fed and worked, never dropped
NextAlive ==
    \/ StartCall
    \/ Send
    \/ \E w \in Threads : WorkerNext(w)
    \/ \E w \in Threads : WorkerWake(w)
    \/ \E w \in Threads : RunJob(w)

SpecAlive == unresumed /\ [][NextAlive]_vars

\* --------------------------------------- guards handed to another thread
\* Nested ownership without cycles (the module docs of std/src/thread.rs and
\* the tests two_scope_spawns_nested / scope_spawn_and_spawn_nested): the
\* spawner starts thread 1 and thread 2, sends the guard of thread 1 to
\* thread 2 over a rendezvous channel and keeps the guard of thread 2 until
\* the end of its scope.  Thread 2 binds what it receives to _this_thread
\* and drops it when its closure ends.

\* the JoinGuard the program is built with: the one of std/src/thread.rs and
\* src/thread.rs re-raises a child's panic in Drop and has join(); the one of
\* src/lib.rs and src/join_guard.rs ignores the join result
GuardVariants == {"propagate", "ignore"}

\* the thread whose closure receives from rx2: thread 2
Receiver == 2

\* the self-ownership the types forbid: the receiver is sent its own guard
HandedGuardSelf == Receiver
\* tx2.send(thrd1): the guard that crosses the channel
HandedGuard == 1

\* let _thrd2 = ...: the guard the spawner still holds at the end of its scope
KeptGuard == 3 - HandedGuard

\* a thread that has run to its end, by returning or by unwinding
Ended(c) == c \in {"finished", "panicked"}

\* JoinHandle::join returns Err exactly for a thread that panicked
JoinResult(c) == IF c = "panicked" THEN "Err" ELSE "Ok"

\* a Drop that re-raises every child panic, unwinding or not
PanicsAtJoinAlways(v, res, unw) == v = "propagate" /\ res = "Err"
\* what Drop does with the join result:
\* if res.is_err() && !std::thread::panicking() { panic!(..) } in
\* std/src/thread.rs, let _ = ...join() in src/lib.rs
PanicsAtJoin(v, res, unw) == v = "propagate" /\ res = "Err" /\ ~unw

\* a join() that leaves the guard with its owner, to be dropped later
not_forgotten(g) == g
\* mem::forget_unchecked(self) in JoinGuard::join: the guard is gone without
\* its Drop having run
forget_unchecked(g) == [g EXCEPT !.holder = "gone"]

\* spawn_borrowed / JoinScope::spawn for thread 1; the thread starts running
\* its closure at once
SpawnFirst(v) ==
    /\ nsMain = "start"
    /\ nsMain' = "spawned1"
    /\ nsVariant' = v
    /\ nsChild' = [nsChild EXCEPT ![1] = "running"]
    /\ nsGuard' = [nsGuard EXCEPT ![1].holder = "main"]
    /\ UNCHANGED <<poolVars, task, slock>>

\* spawn_scoped / JoinGuard::spawn for thread 2
SpawnSecond ==
    /\ nsMain = "spawned1"
    /\ nsMain' = "spawned2"
    /\ nsChild' = [nsChild EXCEPT ![2] = "spawned"]
    /\ nsGuard' = [nsGuard EXCEPT ![2].holder = "main"]
    /\ UNCHANGED <<poolVars, nsVariant, task, slock>>

\* thread 1 runs its closure to the end: it returns, or it panics
ChildRuns ==
    /\ nsChild[1] = "running"
    /\ \E end \in {"finished", "panicked"} : nsChild' = [nsChild EXCEPT ![1] = end]
    /\ UNCHANGED <<poolVars, nsMain, nsGuard, nsVariant, task, slock>>

\* thread 2 reaches rx2.recv() and blocks: the channel has no buffer
ChildRecv ==
    /\ nsChild[2] = "spawned"
    /\ nsChild' = [nsChild EXCEPT ![2] = "recv"]
    /\ UNCHANGED <<poolVars, nsMain, nsGuard, nsVariant, task, slock>>

\* tx2.send(guard): the spawner gives the guard to the channel and blocks
\* until the receiver takes it
SendBegin ==
    /\ nsMain = "spawned2"
    /\ nsMain' = "sending"
    /\ nsGuard' = [nsGuard EXCEPT ![HandedGuard].holder = "channel"]
    /\ UNCHANGED <<poolVars, nsChild, nsVariant, task, slock>>

\* the rendezvous: recv returns the guard to thread 2 and send returns Ok
Rendezvous ==
    /\ nsMain = "sending"
    /\ nsChild[2] = "recv"
    /\ nsMain' = "sent"
    /\ nsChild' = [nsChild EXCEPT ![2] = "holding"]
    /\ nsGuard' = [nsGuard EXCEPT ![HandedGuard].holder = "thread2"]
    /\ UNCHANGED <<poolVars, nsVariant, task, slock>>

\* JoinGuard::drop begins: the handle is taken and join is called
DropBegins(g, unw) == [g EXCEPT !.via = "drop", !.unw = unw]

\* JoinGuard::drop ends: join has returned res, and Drop re-raises or not
DropEnds(g, res) ==
    [g EXCEPT !.holder = "gone", !.joins = @ + 1, !.res = res,
              !.raised = PanicsAtJoin(nsVariant, res, g.unw)]

\* the rest of thread 2's closure: it returns, or it panics; either way
\* _this_thread is dropped next, in the second case during unwinding
ChildBody ==
    /\ nsChild[2] = "holding"
    /\ nsChild' = [nsChild EXCEPT ![2] = "dropping"]
    /\ \E unw \in BOOLEAN :
           nsGuard' = [nsGuard EXCEPT ![HandedGuard] = DropBegins(@, unw)]
    /\ UNCHANGED <<poolVars, nsMain, nsVariant, task, slock>>

\* the drop of _this_thread in thread 2 returns once the joined thread has
\* ended; thread 2 then ends, panicked if it was unwinding or Drop raised
ChildDropReturns ==
    /\ nsChild[2] = "dropping"
    /\ Ended(nsChild[HandedGuard])
    /\ LET g == DropEnds(nsGuard[HandedGuard], JoinResult(nsChild[HandedGuard]))
       IN  /\ nsGuard' = [nsGuard EXCEPT ![HandedGuard] = g]
           /\ nsChild' = [nsChild EXCEPT
                            ![2] = IF g.unw \/ g.raised THEN "panicked"
                                                       ELSE "finished"]
    /\ UNCHANGED <<poolVars, nsMain, nsVariant, task, slock>>

\* JoinGuard::join on the kept guard (std/src/thread.rs only): the handle is
\* taken, the guard forgotten, and join is called
MainJoinBegins ==
    /\ nsMain = "sent"
    /\ nsVariant = "propagate"
    /\ nsMain' = "joining"
    /\ nsGuard' = [nsGuard EXCEPT
                     ![KeptGuard] = forget_unchecked([@ EXCEPT !.via = "join"])]
    /\ UNCHANGED <<poolVars, nsChild, nsVariant, task, slock>>

\* join_handle.join() returns the thread's result to the caller
MainJoinReturns ==
    /\ nsMain = "joining"
    /\ Ended(nsChild[KeptGuard])
    /\ nsMain' = "joined"
    /\ nsGuard' = [nsGuard EXCEPT ![KeptGuard].joins = @ + 1,
                                  ![KeptGuard].res = JoinResult(nsChild[KeptGuard])]
    /\ UNCHANGED <<poolVars, nsChild, nsVariant, task, slock>>

\* the end of the spawner's scope: a guard it still holds is dropped, and
\* with no guard left the spawner is done
MainScopeEnd ==
    /\ nsMain \in {"sent", "joined"}
    /\ IF nsGuard[KeptGuard].holder = "main"
       THEN /\ nsMain' = "dropping"
            /\ nsGuard' = [nsGuard EXCEPT ![KeptGuard] = DropBegins(@, FALSE)]
       ELSE /\ nsMain' = "done"
            /\ UNCHANGED nsGuard
    /\ UNCHANGED <<poolVars, nsChild, nsVariant, task, slock>>

\* the spawner's drop of the kept guard returns once the joined thread has
\* ended
MainDropReturns ==
    /\ nsMain = "dropping"
    /\ Ended(nsChild[KeptGuard])
    /\ LET g == DropEnds(nsGuard[KeptGuard], JoinResult(nsChild[KeptGuard]))
       IN  /\ nsGuard' = [nsGuard EXCEPT ![KeptGuard] = g]
           /\ nsMain' = IF g.raised THEN "panicked" ELSE "done"
    /\ UNCHANGED <<poolVars, nsChild, nsVariant, task, slock>>

NextNested ==
    \/ \E v \in GuardVariants : SpawnFirst(v)
    \/ SpawnSecond
    \/ ChildRuns
    \/ ChildRecv
    \/ SendBegin
    \/ Rendezvous
    \/ ChildBody
    \/ ChildDropReturns
    \/ MainJoinBegins
    \/ MainJoinReturns
    \/ MainScopeEnd
    \/ MainDropReturns

SpecNested == Init /\ [][NextNested]_vars

\* ------------------------------------------- a task and its ScopedJoinHandle
\* One tokio task spawned through spawn_scoped, spawn_local_scoped or
\* spawn_blocking_scoped, and the ScopedJoinHandle its spawner holds.  The
\* runtime is tokio's: a task is polled one step at a time, an abort takes
\* effect at the next poll of a future and never on a blocking closure that
\* has started, and a JoinHandle yields the task's result once.
TaskKinds == {"spawn_scoped", "spawn_local_scoped", "spawn_blocking_scoped"}

\* the task will not be polled again
Stopped(s) == s \in {"completed", "cancelled", "panicked"}

\* tokio::task::spawn / spawn_local / spawn_blocking wrapped in a handle
TaskSpawn(kind) ==
    /\ task.state = "none"
    /\ task' = [task EXCEPT !.kind = kind, !.state = "scheduled", !.handle = "held"]
    /\ UNCHANGED <<poolVars, nestVars, slock>>

\* does the runtime cancel the task instead of running it: the abort flag is
\* set, and the task is a future or a blocking closure that has not started
Cancels(t) ==
    t.abort /\ (t.kind # "spawn_blocking_scoped" \/ t.state = "scheduled")

\* the runtime gives the task a turn: a task to cancel is dropped; otherwise
\* it runs and yields, completes or panics
TaskStep ==
    /\ task.state \in {"scheduled", "running"}
    /\ \E o \in {"running", "completed", "panicked"} :
          /\ o = "running" => task.polls < MaxPolls
          /\ task' = [task EXCEPT
                        !.state = IF Cancels(task) THEN "cancelled" ELSE o,
                        !.polls = IF Cancels(task) \/ o # "running" THEN @ ELSE @ + 1,
                        !.ranAfter = @ \/ (~Cancels(task) /\ task.handle = "dropped")]
    /\ UNCHANGED <<poolVars, nestVars, slock>>

\* ScopedJoinHandle::abort
TaskAbort ==
    /\ task.handle = "held"
    /\ ~task.abort
    /\ task' = [task EXCEPT !.abort = TRUE]
    /\ UNCHANGED <<poolVars, nestVars, slock>>

\* impl Future for ScopedJoinHandle: a poll that finds the task stopped
\* returns Ready with its result, which leaves the JoinHandle with nothing
\* more to give
HandlePoll ==
    /\ task.handle = "held"
    /\ ~task.read
    /\ Stopped(task.state)
    /\ task' = [task EXCEPT !.read = TRUE]
    /\ UNCHANGED <<poolVars, nestVars, slock>>

\* what awaiting the inner JoinHandle gives in drop and cancel: a handle that
\* has already returned Ready is polled again, which tokio answers with the
\* panic "JoinHandle polled after completion"; otherwise the task's result
AwaitInner(t) ==
    IF t.read THEN "polled after completion"
    ELSE IF t.state = "panicked" THEN "Err(panic)"
    ELSE IF t.state = "cancelled" THEN "Err(cancelled)"
    ELSE "Ok"

\* impl Drop for ScopedJoinHandle begins: abort, ManuallyDrop::take, and
\* block_on(task) starts waiting
HandleDropBegins ==
    /\ task.handle = "held"
    /\ task' = [task EXCEPT !.abort = TRUE, !.taken = TRUE, !.handle = "dropping"]
    /\ UNCHANGED <<poolVars, nestVars, slock>>

\* the match in Drop lets Ok and a cancellation through and resumes the
\* task's panic; a panic of the poll itself unwinds out of the drop
DropOutcome(r) ==
    IF r \in {"Ok", "Err(cancelled)"} THEN "normal"
    ELSE IF r = "Err(panic)" THEN "resumed"
    ELSE "panicked"

\* block_on(task) returns when the task has stopped, and Drop ends
HandleDropReturns ==
    /\ task.handle = "dropping"
    /\ Stopped(task.state)
    /\ task' = [task EXCEPT !.handle = "dropped",
                            !.drop = DropOutcome(AwaitInner(task))]
    /\ UNCHANGED <<poolVars, nestVars, slock>>

\* ScopedJoinHandle::cancel begins: abort, ManuallyDrop::take, task.await
CancelBegins ==
    /\ task.handle = "held"
    /\ task' = [task EXCEPT !.abort = TRUE, !.taken = TRUE, !.handle = "cancelling"]
    /\ UNCHANGED <<poolVars, nestVars, slock>>

\* what cancel answers
CancelResult(r) ==
    IF r \in {"Ok", "Err(cancelled)"} THEN "Ok"
    ELSE IF r = "Err(panic)" THEN "Err"
    ELSE "panicked"

\* cancel owns self and does not forget it, so when its body ends the Drop
\* of ScopedJoinHandle runs on a handle whose inner JoinHandle has been taken
\* and released: abort and a second take on it are undefined behaviour.  The
\* build reads what the released handle left behind and polls a JoinHandle
\* that has given its result (a panic), finds the state intact enough to
\* return, or faults.
TakenOutcomes == {"panicked", "normal", "fault"}

\* task.await in cancel returns when the task has stopped; then self is
\* dropped
CancelReturns ==
    /\ task.handle = "cancelling"
    /\ Stopped(task.state)
    /\ \E o \in TakenOutcomes :
          task' = [task EXCEPT !.cancelRet = CancelResult(AwaitInner(task)),
                              !.read = TRUE,
                              !.drop = o,
                              !.handle = IF o = "fault" THEN "fault" ELSE "dropped"]
    /\ UNCHANGED <<poolVars, nestVars, slock>>

NextTask ==
    \/ \E kind \in TaskKinds : TaskSpawn(kind)
    \/ TaskStep
    \/ TaskAbort
    \/ HandlePoll
    \/ HandleDropBegins
    \/ HandleDropReturns
    \/ CancelBegins
    \/ CancelReturns

SpecTask == Init /\ [][NextTask]_vars

\* ------------------------------------------------------------ a ScopeLock
\* One ScopeLock and the pairs (ExtendedFn, ScopeGuard) made from it.  The
\* ScopeGuard borrows the ScopeLock mutably for as long as it lives, so the
\* next pair can only be made once the guard of the one before is gone.  The
\* ExtendedFn may be used on the thread that owns the guard or on another.
LockFnKinds == {"lock_fn", "lock_fn_mut"}

\* an ExtendedFn that lets go of the mutex as soon as it is built
scope_lock_released(p) == 0
\* the _scope_lock field: the ExtendedFn of pair p keeps the MutexGuard
scope_lock_held(p) == p

\* scope_mutex.lock().unwrap_or_else(|e| e.into_inner()): the guard is
\* obtained from a poisoned mutex as from a clean one
into_inner(psn) == "guard"

\* the ExtendedFn of pair p exists; a leaked one exists for good
FnAlive(p) == slock.fn[p] \in {"held", "leaked"}

\* the owner of ExtendedFn p can act: it is not the thread that is blocked
\* in the drop of the guard of the same pair
FnOwnerRuns(p) == ~(slock.same[p] /\ slock.guard[p] = "dropping")

\* ScopeLock::lock_fn / lock_fn_mut: lock the mutex and return the pair
LockFn(kind, same) ==
    /\ slock.made < MaxPairs
    /\ \A p \in Pairs : slock.guard[p] \in {"none", "dropped"}
    /\ slock.holder = 0
    /\ into_inner(slock.poisoned) = "guard"
    /\ LET p == slock.made + 1
       IN  slock' = [slock EXCEPT !.made = p, !.holder = scope_lock_held(p),
                                  !.fn[p] = "held", !.guard[p] = "live",
                                  !.same[p] = same, !.by[p] = kind,
                                  !.fAlive[p] = TRUE]
    /\ UNCHANGED <<poolVars, nestVars, task>>

\* Deref / DerefMut on the ExtendedFn and a call of the function behind it;
\* the call is late when the guard of the pair is gone or the function that
\* was lent has been destroyed.  A call that is like an earlier one is left
\* out.
FnCall(p) ==
    /\ FnAlive(p)
    /\ FnOwnerRuns(p)
    /\ slock' = [slock EXCEPT
                    !.called[p] = TRUE,
                    !.lateCall = @ \/ slock.guard[p] = "dropped"
                                   \/ ~slock.fAlive[p]]
    /\ slock' # slock
    /\ UNCHANGED <<poolVars, nestVars, task>>

\* the MutexGuard inside an ExtendedFn is dropped: the mutex is unlocked if
\* this ExtendedFn held it, and poisoned if the thread is panicking
Unlocked(p, panicking) ==
    [slock EXCEPT !.holder = IF @ = p THEN 0 ELSE @,
                  !.poisoned = @ \/ (slock.holder = p /\ panicking)]

\* the ExtendedFn is dropped by its owner
FnDrop(p) ==
    /\ slock.fn[p] = "held"
    /\ FnOwnerRuns(p)
    /\ slock' = [Unlocked(p, FALSE) EXCEPT !.fn[p] = "dropped"]
    /\ UNCHANGED <<poolVars, nestVars, task>>

\* the owner of the ExtendedFn panics while it holds it: the ExtendedFn is
\* dropped by the unwinding
FnPanic(p) ==
    /\ slock.fn[p] = "held"
    /\ FnOwnerRuns(p)
    /\ slock' = [Unlocked(p, TRUE) EXCEPT !.fn[p] = "dropped"]
    /\ UNCHANGED <<poolVars, nestVars, task>>

\* the ExtendedFn is leaked (Box::leak): it is never dropped
FnLeak(p) ==
    /\ slock.fn[p] = "held"
    /\ FnOwnerRuns(p)
    /\ slock' = [slock EXCEPT !.fn[p] = "leaked"]
    /\ UNCHANGED <<poolVars, nestVars, task>>

\* impl Drop for ScopeGuard begins: scope_mutex.lock() is called
GuardDropBegins(p) ==
    /\ slock.guard[p] = "live"
    /\ slock' = [slock EXCEPT !.guard[p] = "dropping"]
    /\ UNCHANGED <<poolVars, nestVars, task>>

\* lock() returns once the mutex is free; _synchronize is dropped at once
\* and the drop of the guard returns
GuardDropReturns(p) ==
    /\ slock.guard[p] = "dropping"
    /\ slock.holder = 0
    /\ slock' = [slock EXCEPT
                    !.guard[p] = IF into_inner(slock.poisoned) = "guard"
                                 THEN "dropped" ELSE "panicked"]
    /\ UNCHANGED <<poolVars, nestVars, task>>

\* the borrow 'old ends after the guard is gone: the function that was lent
\* is destroyed
ScopeEnds(p) ==
    /\ slock.guard[p] = "dropped"
    /\ slock.fAlive[p]
    /\ slock' = [slock EXCEPT !.fAlive[p] = FALSE]
    /\ UNCHANGED <<poolVars, nestVars, task>>

NextLock ==
    \/ \E kind \in LockFnKinds, same \in BOOLEAN : LockFn(kind, same)
    \/ \E p \in Pairs : FnCall(p)
    \/ \E p \in Pairs : FnDrop(p)
    \/ \E p \in Pairs : FnPanic(p)
    \/ \E p \in Pairs : FnLeak(p)
    \/ \E p \in Pairs : GuardDropBegins(p)
    \/ \E p \in Pairs : GuardDropReturns(p)
    \/ \E p \in Pairs : ScopeEnds(p)

SpecLock == Init /\ [][NextLock]_vars

\* Fairness: the operating system schedules every runnable thread, so a
\* thread that is inside a call and not blocked takes its next step, and a
\* drop that has begun runs on.  Nothing obliges a client to call push, pop
\* or close, or the owner to drop the executor, and nothing obliges a
\* condition variable to wake spuriously.
FairSpec ==
    Spec /\ \A t \in Consumers : WF_vars(pc[t] = "woken" /\ Pop(t))

FairSpecExec ==
    /\ SpecExec
    /\ \A w \in Threads : WF_vars(WorkerStep(w))
    /\ WF_vars(TeardownStep)

FairSpecAlive ==
    /\ SpecAlive
    /\ \A w \in Threads : WF_vars(WorkerStep(w))

\* the spawner and both threads of the nested program run on: every step of
\* the program that stays possible is taken
FairSpecNested ==
    /\ SpecNested
    /\ WF_vars(NextNested)

\* ================================================================ properties
SetOf(seq) == {seq[i] : i \in 1..Len(seq)}

IsPrefix(a, b) == /\ Len(a) <= Len(b)
                  /\ \A i \in 1..Len(a) : a[i] = b[i]

\* the first close that took the lock found the queue open and no pop had
\* succeeded before it
ClosedBeforeAnyPop == poppedAtClose = 0

\* C1: the items handed out by successful pops, in the order the pops took
\* the lock, are the pushed items in push order with nothing skipped (so a
\* subsequence of the pushes); while the queue is open, what has been pushed
\* is what has been popped followed by what is still queued, so every pop
\* took the earliest item still queued.
C1_FifoLaw ==
    /\ IsPrefix(PopItems, pushed)
    /\ items.some => pushed = PopItems \o items.queue

C1_Witness ==
    /\ Len(popped) >= 2
    /\ popped[1][1] # popped[2][1]
    /\ items.some /\ items.queue # <<>>

\* C2: among pool workers popping one queue through clones of one receiver,
\* no job is returned by two pops, no more jobs are popped than were pushed,
\* and no job is executed twice.
C2_NoDuplicateDelivery ==
    /\ \A i, j \in 1..Len(popped) : popped[i][2] = popped[j][2] => i = j
    /\ Len(popped) <= Len(pushed)
    /\ \A i, j \in 1..Len(executed) : executed[i] = executed[j] => i = j

\* two pops against one queued job: one worker has run it, the other is
\* blocked
C2_Witness ==
    /\ Len(pushed) = 1
    /\ Len(popped) = 1
    /\ executed = <<1>>
    /\ \E t \in waiters : t # popped[1][1]

\* C3 as stated: when the queue was closed before any pop, a pop signals
\* closure only after every pushed item has been delivered by pops.
C3_PopsDeliverAfterClose ==
    \A t \in Consumers :
        (ClosedBeforeAnyPop /\ ret[t] = Closed) => PopItems = pushed

\* C3 as the code has it: when the queue was closed before any pop, that
\* close returned every pushed item in push order to its caller, no pop
\* delivers any of them, and no thread stays blocked.
C3_CloseReturnsAll ==
    ClosedBeforeAnyPop =>
        /\ closeRet[1] = Ok(pushed)
        /\ popped = <<>>
        /\ waiters = {}
        /\ \A t \in Consumers : ret[t] \in {NoResult, Closed}

C3_Witness ==
    /\ ClosedBeforeAnyPop
    /\ Len(pushed) >= 2
    /\ \E t \in Consumers : ret[t] = Closed

\* C4 as stated: once the executor's queue is closed and its pool joined,
\* as many jobs have been executed as were queued.
C4_AllQueuedJobsRun ==
    (Dropped /\ threads.some) => Len(executed) = Len(pushed)

\* C4 as the code has it: once the queue is closed and the pool joined, the
\* jobs executed are exactly the jobs popped before the close, each once;
\* the jobs still queued at the close are the ones close took out, and none
\* of them has run.
C4_PoppedJobsRun ==
    (Dropped /\ threads.some) =>
        /\ SetOf(executed) = SetOf(PopItems)
        /\ Len(executed) = Len(popped)
        /\ closeRet[1].ok
        /\ SetOf(executed) \cap SetOf(closeRet[1].item) = {}
        /\ SetOf(executed) \cup SetOf(closeRet[1].item) = SetOf(pushed)

C4_Witness ==
    /\ Dropped /\ threads.some
    /\ executed # <<>>
    /\ closeRet[1].item # <<>>

\* C5: a pop blocked while the queue is open and holds an item does not stay
\* blocked: it leaves the wait, or another consumer takes the item, or the
\* queue is closed.
C5_PushReleasesPop ==
    \A t \in Consumers :
        (t \in waiters /\ items.some /\ items.queue # <<>>)
            ~> (t \notin waiters \/ ~items.some \/ items.queue = <<>>)

\* C6: a job sent to a started executor is executed, unless the executor is
\* dropped first.
C6_SentJobRuns ==
    \A job \in 1..MaxJobs :
        (threads.some /\ job \in SetOf(pushed))
            ~> (job \in SetOf(executed) \/ teardown # 0)

\* C7: when the queue embedded in the sender is destroyed, every worker
\* thread of the pool has terminated.
C7_QueueOutlivesWorkers ==
    ~queueAlive => \A w \in Workers : pc[w] = "finished"

C9_CloseBeforeJoin ==
    (Dropping("threads") \/ joined > 0) =>
        /\ sender = "gone"
        /\ ~items.some
        /\ waiters = {}

\* the pool is being joined while a worker that close released from its wait
\* has not yet run again
C9_Witness ==
    /\ Dropping("threads")
    /\ \E w \in Workers : pc[w] = "woken"

\* C10: no step of any operation takes a closed queue back to open, and an
\* is_closed call made on a closed queue answers true.
C10_CloseIrreversible ==
    [][~items.some => /\ ~items'.some
                      /\ observed' \in {observed, TRUE}]_vars

\* a closed queue on which a later push was refused and is_closed said true
C10_Witness ==
    /\ ~items.some
    /\ ~pushRet.ok /\ pushRet.item > 0
    /\ observed

\* C11: of the close calls made on one queue, in the order they took the
\* lock, the first returns Ok and every later one returns the closed error.
C11_CloseSucceedsOnce ==
    \A i \in 1..Len(closeRet) :
        IF i = 1 THEN closeRet[i].ok ELSE closeRet[i] = CloseError

C11_Witness ==
    /\ Len(closeRet) >= 2
    /\ pushed # <<>>

\* C12: the successful close returned exactly the items pushed and not yet
\* popped when it took the lock, in push order; nothing is pushed or popped
\* afterwards, so what was pushed stays what was popped followed by what
\* close returned.
C12_CloseReturnsRemainder ==
    Len(closeRet) >= 1 =>
        /\ closeRet[1].ok
        /\ Len(popped) = poppedAtClose
        /\ pushed = PopItems \o closeRet[1].item

\* a close that found an item left after another had been popped, followed
\* by a refused push and a pop that got nothing
C12_Witness ==
    /\ Len(closeRet) >= 1
    /\ poppedAtClose = 1
    /\ Len(closeRet[1].item) = 1
    /\ pushRet = PushError(calls)
    /\ \E t \in Consumers : ret[t] = Closed

C14_PushOutcome ==
    [][calls' = calls + 1 =>
          IF items.some
          THEN /\ pushRet' = Ok(0)
               /\ items' = Some(Append(items.queue, calls'))
               /\ pushed' = Append(pushed, calls')
          ELSE /\ ~pushRet'.ok
               /\ into_item(pushRet') = calls'
               /\ items' = None
               /\ pushed' = pushed]_vars

\* a push refused by a closed queue after another had been accepted
C14_Witness ==
    /\ ~items.some
    /\ pushed # <<>>
    /\ pushRet = PushError(calls)
    /\ into_item(pushRet) = Len(pushed) + 1

\* C15: on a closed queue no step of a pop enters the wait: the pass of a pop
\* that finds the queue closed returns the Closed failure in that same pass.
C15_PopNeverBlocksClosed ==
    [][~items.some =>
          \A t \in Consumers :
              /\ pc'[t] # "waiting"
              /\ (pc[t] \in {"ready", "woken"} /\ ret'[t] # ret[t])
                     => (ret'[t] = Closed /\ pc'[t] = "ready")]_vars

\* the queue was closed while empty and a pop came back with Closed
C15_Witness ==
    /\ closeRet # <<>> /\ closeRet[1] = Ok(<<>>)
    /\ pushed = <<>>
    /\ \E t \in Consumers : ret[t] = Closed /\ pc[t] = "ready"

\* every Sender built over the queue has been dropped
LastSenderDropped == sendersMade > 0 /\ senders = 0

\* C16: the step that drops the last live Sender leaves the queue closed and
\* no receiver blocked; while no Sender is alive the queue is closed, and a
\* push made then is refused.
C16_LastSenderDropCloses ==
    /\ [][(senders = 1 /\ senders' = 0) =>
             /\ is_closed(items')
             /\ waiters' = {}
             /\ \A t \in Consumers : pc'[t] # "waiting"]_vars
    /\ [](LastSenderDropped => is_closed(items) /\ waiters = {})
    /\ [][(LastSenderDropped /\ calls' = calls + 1) => ~pushRet'.ok]_vars

\* the last Sender is gone, a receiver it released has not run yet, and a
\* push made since was refused
C16_Witness ==
    /\ LastSenderDropped
    /\ Len(closeRet) = 1
    /\ \E t \in Consumers : pc[t] = "woken"
    /\ pushRet = PushError(calls)

\* C17: dropping a Sender while another Sender of the same queue is alive
\* leaves an open queue open.
C17_OnlyLastSenderCloses ==
    [][(senders >= 2 /\ senders' = senders - 1 /\ items.some) => items'.some]_vars

\* C18: after a thread has panicked while holding the queue's mutex, no
\* later push, pop, close or is_closed call panics on the poisoned lock.
C18_PoisonRecoverable ==
    poisoned => ~expectFailed

\* C19: while the queue is open no worker thread has finished, the pool does
\* not report itself finished, no is_finished call has answered true and no
\* JoinGuard of the pool has come back from its join.
C19_WorkersStopOnlyOnClosure ==
    (threads.some /\ items.some) =>
        /\ \A w \in Workers : pc[w] # "finished"
        /\ ~is_finished
        /\ ~polled.val
        /\ joined = 0

\* an open queue, every worker idle in wait after jobs have been run, and
\* the pool polled
C19_Witness ==
    /\ threads.some /\ items.some
    /\ executed # <<>>
    /\ \A w \in Workers : pc[w] = "waiting"
    /\ polled.turn = 1

\* C20: an is_finished call answers true exactly when every worker thread of
\* the pool has run to its end, and changes nothing but its own answer.
C20_IsFinishedExact ==
    [][polled'.turn # polled.turn =>
          /\ polled'.val = (\A w \in Workers : pc[w] \in {"finished", "panicked"})
          /\ UNCHANGED <<items, waiters, pc, ret, pushRet, closeRet, observed,
                         calls, pushed, popped, poppedAtClose, executed,
                         threads, sender, queueAlive, teardown, joined>>]_vars

\* polled again after a first answer: the pool is finished and says so
C20_Witness ==
    /\ polled = [turn |-> 0, val |-> TRUE]
    /\ threads.some /\ threads.n >= 2
    /\ \A w \in Workers : pc[w] = "finished"
    /\ executed # <<>>

\* C21: once the drop of the pool has returned or unwound out, every guard of
\* the pool has been dropped and every worker thread has ended, also when
\* workers panicked in a job and the drop itself is unwinding.
C21_TeardownJoinsAll ==
    (Dropped /\ threads.some) =>
        /\ joined = threads.n
        /\ \A w \in Workers : ThreadFinished(w)

\* the first guard dropped found its worker panicked; the drop unwound, and
\* a later guard still joined a worker that had returned
C21_Witness ==
    /\ Dropped /\ threads.some /\ unwinding
    /\ pc[1] = "panicked"
    /\ \E w \in Workers : w > 1 /\ pc[w] = "finished"

\* C22: the pool built by start has exactly N worker threads, N being the
\* probe's answer when the probe succeeded and 4 when it failed; N is at
\* least 1 and no other thread exists.
C22_WorkerCount ==
    threads.some =>
        /\ threads.n = (IF atStart.probe.ok THEN atStart.probe.n ELSE 4)
        /\ threads.n >= 1
        /\ {t \in Threads : pc[t] # "absent"} = 1..threads.n

\* the probe failed and four workers are at work
C22_Witness ==
    /\ threads.some /\ ~atStart.probe.ok
    /\ Cardinality({t \in Threads : pc[t] # "absent"}) = 4
    /\ executed # <<>>

\* C23: a call of start on an executor that already has its pool spawns no
\* thread, keeps the pool and every worker where it was, and leaves the
\* queue, its contents and its open or closed state as they were.
C23_StartIdempotent ==
    [][(starts' # starts /\ threads.some) =>
          UNCHANGED <<threads, pc, items, waiters, ret, pushRet, closeRet,
                      observed, calls, pushed, popped, poppedAtClose, executed,
                      sender, queueAlive, teardown, joined, atStart>>]_vars

\* start has been called a second time while a worker was running a job and
\* another job was queued
C23_Witness ==
    /\ starts = 2 /\ threads.some /\ teardown = 0
    /\ \E w \in Workers : pc[w] = "running"
    /\ items.some /\ items.queue # <<>>

\* an executor on which nothing has been called since unresumed()
Unstarted == starts = 0

\* C24: an executor fresh from unresumed() has an open and empty queue, its
\* sender attached and no pool; as long as start has not been called there
\* is no pool, no worker thread, and no job has been taken or run; and an
\* executor that has its pool keeps that very pool until it is gone.
C24_ExecutorLifecycle ==
    /\ []((Unstarted /\ calls = 0 /\ teardown = 0)
            => (items = Some(<<>>) /\ sender = "live" /\ queueAlive))
    /\ [](Unstarted => /\ ~threads.some
                       /\ \A t \in Threads : pc[t] = "absent"
                       /\ popped = <<>> /\ executed = <<>>)
    /\ [][threads.some => threads' = threads]_vars

\* an executor started after a job had been sent, then dropped: its pool is
\* the one start built
C24_Witness ==
    /\ starts = 1 /\ atStart.sent = 1
    /\ threads.some /\ threads.n = num_threads(atStart.probe)
    /\ Dropped

\* the jobs sent before the start that built the pool
SentBeforeStart == SetOf(SubSeq(pushed, 1, atStart.sent))

InFlight == {ret[w].item : w \in {u \in Workers : pc[u] = "running"}}

\* C26: once the queue has been closed no job is popped any more; a worker
\* leaves a job it is running only by having run it, whether or not the queue
\* is closed meanwhile; no guard comes back from its join while its worker is
\* running a job; and after the close the jobs in flight come to their end.
C26_CloseDoesNotAbort ==
    /\ [][closeRet # <<>> => popped' = popped]_vars
    /\ [][\A w \in Workers :
            (pc[w] = "running" /\ pc'[w] # "running")
                => executed' = Append(executed, ret[w].item)]_vars
    /\ [](\A w \in Workers : w <= joined => pc[w] # "running")
    /\ ~items.some ~> (InFlight = {})

\* the queue is closed and the pool is being joined: one worker has been
\* joined while another is still running the job it took before the close
C26_Witness ==
    /\ ~items.some /\ Len(popped) = poppedAtClose
    /\ joined >= 1
    /\ \E w \in Workers : pc[w] = "running" /\ ret[w].item \notin SetOf(executed)

IterEnd == IterNext(Closed)

\* C28: the items handed out by next() are, thread by thread and in order,
\* the items the pops inside returned; the last answer of next() is None
\* exactly when its pop reported Closed; and once some next() has answered
\* None, no next() of any iterator over the queue, old or fresh, hands out
\* an item again.
C28_IterationView ==
    /\ [](yielded = popped)
    /\ [](\A t \in Consumers :
            lastNext[t] # NoNext =>
                /\ lastNext[t].some <=> ret[t].ok
                /\ lastNext[t] = IterEnd <=> ret[t] = Closed
                /\ lastNext[t].some => lastNext[t].item = ret[t].item)
    /\ [][(\E t \in Consumers : lastNext[t] = IterEnd) =>
            /\ yielded' = yielded
            /\ \A u \in Consumers : lastNext'[u] \in {lastNext[u], IterEnd}]_vars

\* an iterator that handed out items has ended, and so has every other
\* iterator over the queue
C28_Witness ==
    /\ Len(yielded) >= 2
    /\ \A t \in Consumers : lastNext[t] = IterEnd

\* C29: a spawn on a JoinScope whose slot is full empties the slot, starts
\* one thread and returns its guard; a spawn on an emptied slot panics with
\* "Second spawn" and starts none; so one JoinScope starts at most one
\* thread.
C29_SingleUseSlot ==
    /\ [][scope' # scope =>
            IF scope.f
            THEN /\ ~scope'.f
                 /\ scope'.spawned = scope.spawned + 1
                 /\ scope'.result = "guard"
            ELSE /\ ~scope'.f
                 /\ scope'.spawned = scope.spawned
                 /\ scope'.result = "Second spawn"]_vars
    /\ [](scope.spawned <= 1)
    /\ [](scope.f <=> scope.spawned = 0)

\* a second spawn, through spawn_static, has failed on a scope that had
\* started its one thread
C29_Witness ==
    /\ scope.result = "Second spawn" /\ scope.by = "spawn_static"
    /\ scope.spawned = 1 /\ ~scope.f

\* C30: a pop that takes an item and leaves others behind releases at most
\* one waiter, a pop that takes the last item releases none, and whenever
\* the open queue holds items while some consumer is blocked in wait, some
\* consumer is not blocked and can take them.
C30_WakeOneChaining ==
    /\ [][Len(popped') > Len(popped) =>
            /\ Cardinality(waiters \ waiters') <= 1
            /\ items'.queue = <<>> => waiters' = waiters
            /\ (items'.queue # <<>> /\ waiters # {}) => waiters' # waiters]_vars
    /\ []((items.some /\ items.queue # <<>> /\ waiters # {})
            => \E t \in Consumers : pc[t] \in {"ready", "woken"})

\* the jobs worker w has popped, in the order it popped them
PoppedBy(w) ==
    LET mine == SelectSeq(popped, LAMBDA e : e[1] = w)
    IN  [i \in 1..Len(mine) |-> mine[i][2]]

\* the jobs worker w has run, in the order they were run
ExecutedBy(w) ==
    SelectSeq(executed, LAMBDA j : \E i \in 1..Len(popped) : popped[i] = <<w, j>>)

\* C31: a worker pops only when it is not running a job; the jobs one worker
\* has popped are in push order; and the jobs it has run are those same jobs
\* in that same order, all of them when it is not running a job and all but
\* the last when it is.
C31_PerWorkerOrder ==
    /\ [][Len(popped') > Len(popped) =>
            pc[popped'[Len(popped')][1]] \in {"ready", "woken"}]_vars
    /\ [](\A w \in Workers :
            /\ \A i, j \in 1..Len(PoppedBy(w)) :
                  i < j => PoppedBy(w)[i] < PoppedBy(w)[j]
            /\ ExecutedBy(w) =
                  IF pc[w] = "running"
                  THEN SubSeq(PoppedBy(w), 1, Len(PoppedBy(w)) - 1)
                  ELSE PoppedBy(w))

\* one worker has popped and run two jobs, one after the other
C31_Witness ==
    /\ \E w \in Workers : PoppedBy(w) = <<1, 2>> /\ ExecutedBy(w) = <<1, 2>>
    /\ threads.n >= 2

\* the spawner has left its scope, normally or by a panic raised in a drop
MainEnded == nsMain \in {"done", "panicked"}

\* C32: JoinGuard joins on drop.  No thread is joined twice; a drop or a
\* join() that has returned has joined a thread that has terminated; once
\* the spawner has left its scope every thread has been joined exactly once;
\* and a guard consumed by join() is gone without a drop of its own.
C32_JoinedExactlyOnce ==
    \A g \in Guards :
        /\ nsGuard[g].joins <= 1
        /\ nsGuard[g].joins = 1 => Ended(nsChild[g])
        /\ MainEnded => nsGuard[g].joins = 1
        /\ nsGuard[g].via = "join" => nsGuard[g].holder = "gone"

\* the spawner joined thread 2 with join(), thread 2 joined thread 1 in a
\* drop, and the spawner's scope has ended with no second join
C32_Witness ==
    /\ nsMain = "done"
    /\ nsGuard[KeptGuard].via = "join" /\ nsGuard[KeptGuard].joins = 1
    /\ nsGuard[HandedGuard].via = "drop" /\ nsGuard[HandedGuard].joins = 1

\* the thread that drops guard g, read off its position: has it ended by a
\* panic
DropperPanicked(g) ==
    IF g = KeptGuard THEN nsMain = "panicked" ELSE nsChild[Receiver] = "panicked"

\* C33: panic propagation at the join point.  With the JoinGuard of
\* std/src/thread.rs, a drop that has returned has joined its thread, and
\* it raised a panic in the dropping thread exactly when the joined thread
\* panicked and the dropping thread was not unwinding; a dropping thread that
\* was neither unwinding nor handed a panic ends normally.  join() never
\* raises: it returns Err for a panicked thread and Ok otherwise, and the
\* caller carries on.
C33_PanicAtJoinPoint ==
    nsVariant = "propagate" =>
        \A g \in Guards :
            /\ nsGuard[g].via = "drop" /\ nsGuard[g].holder = "gone" =>
                   /\ nsGuard[g].joins = 1
                   /\ Ended(nsChild[g])
                   /\ nsGuard[g].raised <=>
                          (nsChild[g] = "panicked" /\ ~nsGuard[g].unw)
                   /\ DropperPanicked(g) <=> (nsGuard[g].raised \/ nsGuard[g].unw)
            /\ nsGuard[g].via = "join" /\ nsGuard[g].joins = 1 =>
                   /\ ~nsGuard[g].raised
                   /\ nsGuard[g].res = JoinResult(nsChild[g])
                   /\ nsMain \in {"joined", "done"}

\* thread 1 panicked; thread 2, unwinding from its own panic, joined it in a
\* drop that raised nothing; the spawner's drop of thread 2's guard raised
C33_Witness ==
    /\ nsVariant = "propagate"
    /\ nsChild[1] = "panicked"
    /\ nsGuard[HandedGuard].holder = "gone" /\ nsGuard[HandedGuard].unw
    /\ ~nsGuard[HandedGuard].raised
    /\ nsGuard[KeptGuard].raised /\ nsMain = "panicked"

\* C34: acyclic nested guard ownership terminates.  The spawner always
\* leaves its scope, and when it has, thread 1 and thread 2 have both
\* terminated.
C34_NestedOwnershipTerminates ==
    /\ [](MainEnded => \A c \in Guards : Ended(nsChild[c]))
    /\ <>MainEnded

\* the guard of thread 1 crossed the channel, thread 2 joined thread 1 when
\* it dropped _this_thread, and the spawner's drop of _thrd2 has returned
C34_Witness ==
    /\ nsMain = "done"
    /\ nsGuard[1].via = "drop" /\ nsGuard[1].holder = "gone"
    /\ nsGuard[2].via = "drop" /\ nsGuard[2].holder = "gone"
    /\ \A c \in Guards : nsChild[c] = "finished"

\* C35: dropping a Sender whose queue is already closed is a silent no-op.
\* The drop calls close, close answers with the error and the drop discards
\* it: no panic is raised, the queue stays closed, and no item, waiter or
\* thread is touched.
C35_DropAfterClose ==
    [][(senders' < senders /\ ~items.some) =>
          /\ items' = None
          /\ closeRet' = Append(closeRet, CloseError)
          /\ ~expectFailed'
          /\ is_closed(items')
          /\ pushed' = pushed /\ popped' = popped
          /\ waiters' = waiters /\ pc' = pc]_vars

\* the client closed the queue as often as it may, then dropped a Sender:
\* the first close got the items, the drop's close got the error
C35_Witness ==
    /\ ~items.some
    /\ sendersMade - senders = 1
    /\ Len(closeRet) = MaxClose + 1
    /\ closeRet[1].ok
    /\ closeRet[Len(closeRet)] = CloseError
    /\ ~expectFailed

\* how often x occurs in seq
Occ(seq, x) == Cardinality({i \in 1..Len(seq) : seq[i] = x})

\* the closes that answered Ok, by their position in the history
OkCloses == {i \in 1..Len(closeRet) : closeRet[i].ok}

\* how often x occurs in what the closes handed back
OccClosed(x) ==
    IF OkCloses = {} THEN 0
    ELSE Occ(closeRet[CHOOSE i \in OkCloses : TRUE].item, x)

\* C37: item conservation.  Every item a push accepted is in exactly one
\* place: queued, returned by one pop, or in the sequence one close
\* returned; at most one close succeeds; and nothing is queued, popped or
\* handed back by close that no push accepted.
C37_ItemConservation ==
    /\ Cardinality(OkCloses) <= 1
    /\ \A x \in SetOf(pushed) :
          Occ(items.queue, x) + Occ(PopItems, x) + OccClosed(x) = 1
    /\ SetOf(items.queue) \cup SetOf(PopItems) \subseteq SetOf(pushed)
    /\ \A i \in OkCloses : SetOf(closeRet[i].item) \subseteq SetOf(pushed)
    /\ Len(items.queue) + Len(PopItems)
          + (IF OkCloses = {} THEN 0
             ELSE Len(closeRet[CHOOSE i \in OkCloses : TRUE].item)) = Len(pushed)

\* three accepted items: one was popped, two were handed back by the first
\* close, and a second close handed back nothing
C37_Witness ==
    /\ Len(pushed) = 3
    /\ Len(PopItems) = 1
    /\ Len(closeRet) = 2
    /\ closeRet[1] = Ok(<<2, 3>>)
    /\ closeRet[2] = CloseError

\* C38: a closed queue retains no items.  Whenever is_closed() is true the
\* mutex holds None and no deque; a step taken on a closed queue hands out no
\* item, puts no thread into the wait, and a next() that answers on it
\* answers None from a pop that reported Closed; and once size_hint has an
\* upper bound of Some(0), it keeps it and no item is handed out any more.
C38_ClosedQueueIsEmpty ==
    /\ [](is_closed(items) => items = None /\ items.queue = <<>>)
    /\ [][is_closed(items) =>
            /\ yielded' = yielded /\ popped' = popped
            /\ waiters' \subseteq waiters
            /\ \A t \in Consumers :
                  (lastNext'[t] # lastNext[t] \/ ret'[t] # ret[t]) =>
                      /\ ret'[t] = Closed
                      /\ lastNext'[t] = IterEnd
                      /\ pc'[t] = "ready"]_vars
    /\ [][size_hint(items)[2] = then_some(TRUE, 0) =>
            /\ size_hint(items')[2] = then_some(TRUE, 0)
            /\ yielded' = yielded]_vars

\* close moved two queued items out of the queue; afterwards the hint is
\* (0, Some(0)) and a next() has answered None, with one item handed out
\* before the close
C38_Witness ==
    /\ is_closed(items)
    /\ Len(closeRet) >= 1 /\ Len(closeRet[1].item) = 2
    /\ size_hint(items) = <<0, then_some(TRUE, 0)>>
    /\ Len(yielded) = 1
    /\ \E t \in Consumers : lastNext[t] = IterEnd /\ ret[t] = Closed

\* C39: a panicking job takes down only its own worker.  The job a dead
\* worker took is neither queued nor run, and was handed out once; a dead
\* worker stays dead and takes nothing more; the step in which a worker dies
\* changes no other thread, nothing in the queue and nothing already run;
\* every other worker that is not blocked can take its next step; and a push
\* on an open queue is accepted whatever has become of the workers.
C39_PanicKillsOneWorker ==
    /\ [](\A w \in Workers :
            pc[w] = "panicked" =>
                /\ ret[w].ok
                /\ ret[w].item \notin SetOf(executed)
                /\ ret[w].item \notin SetOf(items.queue)
                /\ Occ(PopItems, ret[w].item) = 1)
    /\ [](\A u \in Workers :
            /\ (pc[u] \in {"ready", "woken"} /\ queueAlive) => ENABLED WorkerNext(u)
            /\ pc[u] = "running" => ENABLED RunJob(u))
    /\ [][\A w \in Workers :
            pc[w] = "panicked" =>
                /\ pc'[w] = "panicked"
                /\ ret'[w] = ret[w]
                /\ PoppedBy(w)' = PoppedBy(w)]_vars
    /\ [][\A w \in Workers :
            (pc[w] = "running" /\ pc'[w] = "panicked") =>
                /\ \A u \in Threads \ {w} : pc'[u] = pc[u]
                /\ items' = items /\ waiters' = waiters
                /\ executed' = executed /\ popped' = popped]_vars
    /\ [][(calls' = calls + 1 /\ items.some) =>
            /\ pushRet' = Ok(0)
            /\ pushed' = Append(pushed, calls + 1)
            /\ items' = Some(Append(items.queue, calls + 1))]_vars

\* the only worker of the pool died in job 1; job 2 was accepted and waits
\* in the open queue
C39_Witness ==
    /\ threads.some /\ threads.n = 1
    /\ pc[1] = "panicked" /\ ret[1] = Ok(1)
    /\ items.some /\ items.queue = <<2>>
    /\ pushRet = Ok(0)
    /\ executed = <<>>

\* C36: ScopedJoinHandle cancels on drop.  When the drop of the handle has
\* returned, abort was requested, the task has stopped and has taken no turn
\* since; the drop returned normally if the task was cancelled or completed,
\* and unwound with the task's panic if the task panicked.
C36_CancelOnDrop ==
    /\ ~task.ranAfter
    /\ task.handle = "dropped" =>
          /\ task.abort
          /\ Stopped(task.state)
          /\ task.state \in {"cancelled", "completed"} => task.drop = "normal"
          /\ task.state = "panicked" => task.drop = "resumed"

\* C40: the ScopeLock hand-shake.  Every ExtendedFn / ExtendedFnMut that
\* exists holds the mutex, so at most one exists at a time; a ScopeGuard
\* whose drop has returned belongs to an ExtendedFn that has been dropped;
\* no call through an ExtendedFn comes after the drop of its guard has
\* returned or after the function lent to it is gone; and the drop of a
\* guard never panics and can return as soon as the mutex is free, poisoned
\* or not.
C40_ScopeLockHandshake ==
    /\ \A p \in Pairs : FnAlive(p) => slock.holder = p
    /\ Cardinality({p \in Pairs : FnAlive(p)}) <= 1
    /\ \A p \in Pairs : slock.guard[p] = "dropped" => slock.fn[p] = "dropped"
    /\ ~slock.lateCall
    /\ \A p \in Pairs :
          /\ slock.guard[p] # "panicked"
          /\ (slock.guard[p] = "dropping" /\ slock.holder = 0) =>
                 ENABLED GuardDropReturns(p)

\* the owner of the first ExtendedFn called it and panicked, the mutex is
\* poisoned, the drop of the first guard has returned all the same, and a
\* second pair has been made from the poisoned ScopeLock
C40_Witness ==
    /\ slock.poisoned
    /\ slock.called[1]
    /\ slock.fn[1] = "dropped" /\ slock.guard[1] = "dropped"
    /\ slock.fn[2] = "held" /\ slock.holder = 2

====
